---- MODULE Spec2Model ----
(***************************************************************************)
(* The playback engine of src-tauri/src/audio.rs with the decoder          *)
(* subprocess of src-tauri/src/ffmpeg.rs.                                   *)
(*                                                                         *)
(* The worker thread owns an AudioWorker; it handles one command or one    *)
(* recv timeout at a time (AudioWorker::run).  The realtime callback and   *)
(* the stream's error callback run on the driver's thread and touch only   *)
(* the ring buffer consumer and the atomics.  Samples move in blocks of     *)
(* BlockLen samples (half a read buffer): a read delivers 0, 1 or 2        *)
(* blocks, and the samples of one block are all alike, so the ring buffer  *)
(* and the callback's output buffer hold one value per block.  A sample     *)
(* value is an integer; a volume is in hundredths, so an output slot holds  *)
(* hundredths of a sample unit.  Instant::now() - start_time of a           *)
(* crossfade is kept as the field elapsed, which TimePasses advances.      *)
(***************************************************************************)
EXTENDS Integers, Sequences, FiniteSets, TLC

(* ---------------------------------------------------------------- bounds *)

\* Process ids the operating system can hand out (spawned, not yet reaped).
MaxProcs == 3
\* Blocks one decoder subprocess delivers before its stream ends.
MaxOutBlocks == 3
\* The nonzero crossfade duration the user can configure, in clock steps (ms).
MaxFade == 2
\* Blocks one realtime callback invocation asks for at most.
MaxCallbackBlocks == 2
\* Commands the channel holds at most before the callers are made to wait.
MaxQueue == 2
\* Samples in the longest byte stream a watched decoder writes, and in the
\* buffer read_samples is given.
MaxPipeSamples == 2

(* ----------------------------------------------------- program constants *)

\* primary_buffer / secondary_buffer: vec![0.0f32; 8192]
ChunkLen == 8192
\* (sample_rate * channels) / 1000 and pos_ms * ... / 1000
MsPerSec == 1000
\* recv_timeout(Duration::from_millis(5)): the tick period
TickMs == 5

BlockLen == ChunkLen \div 2
\* The size of an f32 in the decoder's output.
BytesPerSample == 4

(* ------------------------------------------------------------ Option<T> *)

NONE == <<>>
Some(x) == <<x>>
IsSome(o) == o # <<>>
Unwrap(o) == o[1]

(* ---------------------------------------------------------------- inputs *)

Paths == {"a.flac", "b.flac"}
\* ffprobe's duration of each file, ms
DurationOf == [p \in Paths |-> IF p = "a.flac" THEN 9000 ELSE 12000]
SeekPositions == {4000}
Volumes == {50, 100}
CrossfadeSettings == {0, MaxFade}
\* What the files decode to: silence, or a tone of its own for each file
Silence == [p \in Paths |-> 0]
Tones == [p \in Paths |-> IF p = "a.flac" THEN 6 ELSE -18]
\* The host's output devices and the default_output_config() of each
\* The bytes a decoder writes
Bytes == {1, 2}

\* The byte streams of whole samples, up to MaxPipeSamples of them
RECURSIVE ByteSeqs(_)
ByteSeqs(n) ==
  IF n = 0 THEN {<<>>}
  ELSE {Append(bytes, b) : bytes \in ByteSeqs(n - 1), b \in Bytes}

Streams == UNION {ByteSeqs(n * BytesPerSample) : n \in 1 .. MaxPipeSamples}

DeviceNames == {"builtin", "usb"}
DeviceConfig == [d \in DeviceNames |->
                   IF d = "builtin" THEN [sample_rate |-> 16000, channels |-> 1]
                                    ELSE [sample_rate |-> 11025, channels |-> 2]]
\* The names SetDevice is called with
SelectableNames == DeviceNames

\* What the environment answers to one recreate_cpal_stream call: a stream
\* on the selected device; a stream on the default device because the
\* selected one is not there; no device or no default_output_config();
\* build_output_stream or stream.play() failed.
RecreateOutcomes == {"ok", "ok_fallback", "no_config", "no_stream"}

\* What the environment answers to the calls of one hard cut (probe_file,
\* recreate_cpal_stream, spawn); what follows a failed probe is never asked.
HardCutEnvs ==
  {[probe |-> TRUE, spawn |-> TRUE, hc_probe |-> FALSE, hc_spawn |-> TRUE, rec |-> "ok"]}
  \cup [probe : {TRUE}, spawn : {TRUE}, hc_probe : {TRUE}, hc_spawn : BOOLEAN,
        rec : RecreateOutcomes]
\* ... and to the calls of one Play request: on the crossfade path probe_file
\* and spawn come first, and only a failed spawn leads on to the hard cut.
PlayEnvs(crossfade) ==
  IF crossfade
  THEN {[probe |-> FALSE, spawn |-> TRUE, hc_probe |-> TRUE, hc_spawn |-> TRUE, rec |-> "ok"],
        [probe |-> TRUE, spawn |-> TRUE, hc_probe |-> TRUE, hc_spawn |-> TRUE, rec |-> "ok"]}
       \cup {[e EXCEPT !.spawn = FALSE] : e \in HardCutEnvs}
  ELSE HardCutEnvs
\* ... and to the calls of one Seek (spawn_at, then recreate_cpal_stream).
SeekEnvs ==
  {[spawn |-> FALSE, rec |-> "ok"]} \cup [spawn : {TRUE}, rec : RecreateOutcomes]

(* ----------------------------------------------------------------- state *)

VARIABLES
  default_device,  \* the device host.default_output_device() answers with
  pcm,       \* the sample value each file decodes to
  pipe,      \* one decoder's stdout seen byte by byte, and what was read from it
  worker,    \* struct AudioWorker (the Arc'd atomics included)
  state,     \* the PlaybackState snapshot behind Arc<Mutex<..>>
  queue,     \* the mpsc channel: the commands sent and not yet received
  ring,      \* the HeapRb: the blocks pushed and not yet popped, oldest first
  data,      \* the output buffer as the last data callback left it
  children,  \* how many decoder subprocesses are spawned and not yet killed+reaped
  events,    \* the events the last worker step emitted on the AppHandle
  last       \* the last worker step: the command or timeout and the path it took

vars == <<default_device, pcm, pipe, queue, worker, state, ring, data, children, events, last>>

\* The worker's view of everything one handler reads and writes.
\* io lists what the handler did outside the process's memory, each with
\* whether a guard of the PlaybackState mutex was alive at the time.
Machine == [w |-> worker, state |-> state, ring |-> ring, children |-> children,
            events |-> <<>>, io |-> <<>>, res |-> ""]

performed(m, op, locked) == [m EXCEPT !.io = Append(@, [op |-> op, locked |-> locked])]

\* app_handle.emit of an event whose payload is not the snapshot
emit(m, e) == performed([m EXCEPT !.events = Append(@, e)], "emit", FALSE)

\* app_handle.emit(.., &*s) with s the guard of self.state
emit_locked(m, e) == performed([m EXCEPT !.events = Append(@, e)], "emit", TRUE)
took(m, r) == [m EXCEPT !.res = r]

\* f32::to_bits of a volume given in hundredths (0.0, 0.5, 1.0); the casts
\* to u64 on the store and back to u32 on the load keep all 32 bits
to_bits(vol) ==
  CASE vol = 0 -> 0
    [] vol = 50 -> 1056964608
    [] vol = 100 -> 1065353216

\* f32::from_bits, in hundredths
from_bits(bits) == CHOOSE vol \in {0, 50, 100} : to_bits(vol) = bits

\* impl Default for PlaybackState
DefaultPlaybackState ==
  [is_playing |-> FALSE, is_paused |-> FALSE, current_file |-> NONE,
   position_ms |-> 0, duration_ms |-> 0, volume |-> 100]

\* AudioWorker::new
NewWorker(device) ==
  [stream |-> FALSE, producer |-> NONE, volume |-> to_bits(100), is_playing |-> FALSE,
   device_error |-> FALSE, primary_process |-> NONE, secondary_process |-> NONE,
   crossfade_setting |-> 0, crossfade_state |-> NONE,
   device_sample_rate |-> DeviceConfig[device].sample_rate,
   device_channels |-> DeviceConfig[device].channels,
   selected_device_name |-> NONE,
   current_file_path |-> NONE, duration_ms |-> 0, current_position_ms |-> 0,
   samples_played |-> 0]

\* A decoder's stdout before the first read: stream is all the child will
\* ever write, unread what no read has taken yet
NewPipe(stream) ==
  [stream |-> stream, unread |-> stream, bytes_read |-> 0, samples_read |-> 0,
   samples |-> <<>>]

\* The state after AudioEngine::new, with the files there are to play and
\* the byte streams the watched decoder may write
Start(files, streams) ==
  /\ default_device \in DeviceNames
  /\ pcm = files
  /\ pipe \in {NewPipe(stream) : stream \in streams}
  /\ worker = NewWorker(default_device)
  /\ state = DefaultPlaybackState
  /\ queue = <<>>
  /\ ring = <<>>
  /\ data = <<>>
  /\ children = 0
  /\ events = <<>>
  /\ last = [op |-> "new", arg |-> NONE, res |-> ""]

Boot(files) == Start(files, {<<>>})

Init == Boot(Silence)

(* ------------------------------------------------------- FFmpegProcess *)

\* Command::spawn succeeds only if the system can create another process.
CanSpawn(m, ok) == ok /\ m.children < MaxProcs

\* FFmpegProcess::spawn_at: the arguments the child was started with; out
\* counts the samples read from its stdout so far.
spawn_at(path, sample_rate, channels, position_ms) ==
  [path |-> path, sample_rate |-> sample_rate, channels |-> channels,
   position_ms |-> position_ms, out |-> 0]

\* FFmpegProcess::spawn
spawn(path, sample_rate, channels) == spawn_at(path, sample_rate, channels, NONE)

\* The worker takes hold of a process that was just spawned.
spawned(m) == performed([m EXCEPT !.children = @ + 1], "spawn", FALSE)

\* FFmpegProcess::kill: child.kill() and child.wait()
kill(m, proc) == [m EXCEPT !.children = @ - 1]

\* Option::take() followed by kill() on the value taken
kill_opt(m, o) == IF IsSome(o) THEN kill(m, Unwrap(o)) ELSE m

\* f32::from_le_bytes: the 32 bits the four bytes make, lowest byte first
from_le_bytes(bytes) ==
  bytes[1] + 256 * bytes[2] + 65536 * bytes[3] + 16777216 * bytes[4]

\* What stdout.read can answer with for a buffer of bytes_needed bytes: 0
\* at the end of the stream, else any number of the bytes waiting
stdout_read(unread, bytes_needed) ==
  IF unread = <<>> THEN {0}
  ELSE {k \in 1 .. bytes_needed : k <= Len(unread)}

\* FFmpegProcess::read_samples when its one stdout.read returned bytes_read
\* bytes: n is the count it returns, buffer the samples it wrote, rest the
\* bytes still in the pipe
read_samples(unread, bytes_read) ==
  LET byte_buffer == SubSeq(unread, 1, bytes_read)
      samples_read == bytes_read \div BytesPerSample
  IN [n |-> samples_read,
      buffer |-> [i \in 1 .. samples_read |->
                    from_le_bytes(SubSeq(byte_buffer, (i - 1) * BytesPerSample + 1,
                                         i * BytesPerSample))],
      rest |-> SubSeq(unread, bytes_read + 1, Len(unread))]

(* --------------------------------------------------------- AudioWorker *)

emit_state(m) == emit_locked(m, "state")

\* set_playback is called with the guards of media_controls and of state alive
update_media_controls(m) ==
  IF m.state.is_paused \/ m.state.is_playing
  THEN performed(m, "set_playback", TRUE)
  ELSE m

\* A variant: stop without the kill of the secondary decoder.
stop_primary_only(m) ==
  LET k1 == kill_opt(m, m.w.primary_process)
  IN emit_state([k1 EXCEPT
       !.w.is_playing = FALSE,
       !.w.primary_process = NONE,
       !.w.secondary_process = NONE,
       !.w.stream = FALSE,
       !.w.producer = NONE,
       !.ring = <<>>,
       !.w.current_file_path = NONE,
       !.w.current_position_ms = 0,
       !.w.duration_ms = 0,
       !.w.samples_played = 0,
       !.w.crossfade_state = NONE,
       !.state.is_playing = FALSE,
       !.state.is_paused = FALSE,
       !.state.position_ms = 0,
       !.state.current_file = NONE])

stop(m) ==
  LET k1 == kill_opt(m, m.w.primary_process)
      k2 == kill_opt(k1, m.w.secondary_process)
  IN emit_state([k2 EXCEPT
       !.w.is_playing = FALSE,
       !.w.primary_process = NONE,
       !.w.secondary_process = NONE,
       !.w.stream = FALSE,
       !.w.producer = NONE,
       !.ring = <<>>,
       !.w.current_file_path = NONE,
       !.w.current_position_ms = 0,
       !.w.duration_ms = 0,
       !.w.samples_played = 0,
       !.w.crossfade_state = NONE,
       !.state.is_playing = FALSE,
       !.state.is_paused = FALSE,
       !.state.position_ms = 0,
       !.state.current_file = NONE])

\* A variant: a pause that also empties the ring buffer.
pause_flushes(m) ==
  emit_state(update_media_controls([m EXCEPT !.w.is_playing = FALSE,
                                             !.ring = <<>>,
                                             !.state.is_paused = TRUE,
                                             !.state.is_playing = FALSE]))

\* A variant: a pause that marks the snapshot paused and leaves its is_playing.
pause_keeps_playing(m) ==
  emit_state(update_media_controls([m EXCEPT !.w.is_playing = FALSE,
                                             !.state.is_paused = TRUE]))

pause(m) ==
  emit_state(update_media_controls([m EXCEPT !.w.is_playing = FALSE,
                                             !.state.is_paused = TRUE,
                                             !.state.is_playing = FALSE]))

resume(m) ==
  emit_state(update_media_controls([m EXCEPT !.w.is_playing = TRUE,
                                             !.state.is_paused = FALSE,
                                             !.state.is_playing = TRUE]))

\* The device recreate_cpal_stream ends up with: the selected one if a device
\* of that name is present, else the host's default.
ResolveDevice(m, outcome) ==
  IF /\ IsSome(m.w.selected_device_name)
     /\ Unwrap(m.w.selected_device_name) \in DeviceNames
     /\ outcome # "ok_fallback"
  THEN Unwrap(m.w.selected_device_name)
  ELSE default_device

recreate_cpal_stream(m0, outcome) ==
  LET m == performed(m0, "build_stream", FALSE)
  IN
  IF outcome = "no_config" THEN emit(m, "error")
  ELSE
    LET config == DeviceConfig[ResolveDevice(m, outcome)]
        buffer_size == config.sample_rate * config.channels
        m1 == [m EXCEPT !.w.device_sample_rate = config.sample_rate,
                        !.w.device_channels = config.channels,
                        !.w.producer = Some(buffer_size),
                        !.ring = <<>>]
    IN IF outcome = "no_stream" THEN emit(m1, "error")
       ELSE [m1 EXCEPT !.w.stream = TRUE]

\* A variant: handle_device_change without the store of false to the flag.
handle_device_change_keeps_flag(m, outcome) ==
  IF IsSome(m.w.current_file_path)
  THEN recreate_cpal_stream([m EXCEPT !.w.stream = FALSE,
                                      !.w.producer = NONE,
                                      !.ring = <<>>], outcome)
  ELSE m

handle_device_change(m, outcome) ==
  LET m1 == [m EXCEPT !.w.device_error = FALSE]
  IN IF IsSome(m1.w.current_file_path)
     THEN recreate_cpal_stream([m1 EXCEPT !.w.stream = FALSE,
                                          !.w.producer = NONE,
                                          !.ring = <<>>], outcome)
     ELSE m1

\* A variant: play_file_hard_cut without the duration written to the snapshot.
play_file_hard_cut_stale_duration(m, path, env) ==
  LET m0 == performed(stop(m), "probe", FALSE)
  IN IF ~env.hc_probe THEN took(emit(m0, "error"), "probe_fail")
     ELSE
       LET m1 == recreate_cpal_stream([m0 EXCEPT !.w.duration_ms = DurationOf[path]],
                                      env.rec)
       IN IF ~CanSpawn(m1, env.hc_spawn) THEN took(emit(m1, "error"), "spawn_fail")
          ELSE
            LET process == spawn(path, m1.w.device_sample_rate, m1.w.device_channels)
            IN took(emit_state([spawned(m1) EXCEPT
                 !.w.primary_process = Some(process),
                 !.w.current_file_path = Some(path),
                 !.w.current_position_ms = 0,
                 !.w.samples_played = 0,
                 !.state.is_playing = TRUE,
                 !.state.is_paused = FALSE,
                 !.state.current_file = Some(path),
                 !.state.position_ms = 0,
                 !.w.is_playing = TRUE]), "ok")

\* A variant: play_file_hard_cut without the stop() it begins with.
play_file_hard_cut_no_stop(m, path, env) ==
  LET m0 == performed(m, "probe", FALSE)
  IN IF ~env.hc_probe THEN took(emit(m0, "error"), "probe_fail")
     ELSE
       LET m1 == recreate_cpal_stream([m0 EXCEPT !.w.duration_ms = DurationOf[path]],
                                      env.rec)
       IN IF ~CanSpawn(m1, env.hc_spawn) THEN took(emit(m1, "error"), "spawn_fail")
          ELSE
            LET process == spawn(path, m1.w.device_sample_rate, m1.w.device_channels)
            IN took(emit_state([spawned(m1) EXCEPT
                 !.w.primary_process = Some(process),
                 !.w.current_file_path = Some(path),
                 !.w.current_position_ms = 0,
                 !.w.samples_played = 0,
                 !.state.is_playing = TRUE,
                 !.state.is_paused = FALSE,
                 !.state.current_file = Some(path),
                 !.state.duration_ms = m1.w.duration_ms,
                 !.state.position_ms = 0,
                 !.w.is_playing = TRUE]), "ok")

play_file_hard_cut(m, path, env) ==
  LET m0 == performed(stop(m), "probe", FALSE)
  IN IF ~env.hc_probe THEN took(emit(m0, "error"), "probe_fail")
     ELSE
       LET m1 == recreate_cpal_stream([m0 EXCEPT !.w.duration_ms = DurationOf[path]],
                                      env.rec)
       IN IF ~CanSpawn(m1, env.hc_spawn) THEN took(emit(m1, "error"), "spawn_fail")
          ELSE
            LET process == spawn(path, m1.w.device_sample_rate, m1.w.device_channels)
            IN took(emit_state([spawned(m1) EXCEPT
                 !.w.primary_process = Some(process),
                 !.w.current_file_path = Some(path),
                 !.w.current_position_ms = 0,
                 !.w.samples_played = 0,
                 !.state.is_playing = TRUE,
                 !.state.is_paused = FALSE,
                 !.state.current_file = Some(path),
                 !.state.duration_ms = m1.w.duration_ms,
                 !.state.position_ms = 0,
                 !.w.is_playing = TRUE]), "ok")

\* A variant: should_crossfade without the look at the playing flag.
should_crossfade_paused(m, path) ==
  /\ m.w.crossfade_setting > 0
  /\ IsSome(m.w.primary_process)
  /\ m.w.current_file_path # Some(path)

\* A variant: should_crossfade without the check that a primary decoder is held.
should_crossfade_any(m, path) ==
  /\ m.w.is_playing
  /\ m.w.crossfade_setting > 0
  /\ m.w.current_file_path # Some(path)

should_crossfade(m, path) ==
  /\ m.w.is_playing
  /\ m.w.crossfade_setting > 0
  /\ IsSome(m.w.primary_process)
  /\ m.w.current_file_path # Some(path)

\* A variant: the crossfade path stopping the playback when its probe fails.
handle_play_request_probe_stops(m, path, env) ==
  IF should_crossfade(m, path)
  THEN IF ~env.probe
       THEN took(emit(stop(performed(m, "probe", FALSE)), "error"), "crossfade_probe_fail")
       ELSE IF CanSpawn(m, env.spawn)
       THEN LET process == spawn(path, m.w.device_sample_rate, m.w.device_channels)
            IN took(emit_state([spawned(performed(m, "probe", FALSE)) EXCEPT
                 !.w.secondary_process = Some(process),
                 !.w.crossfade_state =
                    Some([elapsed |-> 0, duration |-> m.w.crossfade_setting]),
                 !.w.current_file_path = Some(path),
                 !.w.duration_ms = DurationOf[path],
                 !.w.current_position_ms = 0,
                 !.w.samples_played = 0,
                 !.state.current_file = Some(path),
                 !.state.duration_ms = DurationOf[path],
                 !.state.position_ms = 0]), "crossfade")
       ELSE LET h == play_file_hard_cut(performed(m, "probe", FALSE), path, env)
            IN took(h, "fallback_" \o h.res)
  ELSE LET h == play_file_hard_cut(m, path, env)
       IN took(h, "hard_cut_" \o h.res)

handle_play_request(m, path, env) ==
  IF should_crossfade(m, path)
  THEN IF ~env.probe
       THEN took(emit(performed(m, "probe", FALSE), "error"), "crossfade_probe_fail")
       ELSE IF CanSpawn(m, env.spawn)
       THEN LET process == spawn(path, m.w.device_sample_rate, m.w.device_channels)
            IN took(emit_state([spawned(performed(m, "probe", FALSE)) EXCEPT
                 !.w.secondary_process = Some(process),
                 !.w.crossfade_state =
                    Some([elapsed |-> 0, duration |-> m.w.crossfade_setting]),
                 !.w.current_file_path = Some(path),
                 !.w.duration_ms = DurationOf[path],
                 !.w.current_position_ms = 0,
                 !.w.samples_played = 0,
                 !.state.current_file = Some(path),
                 !.state.duration_ms = DurationOf[path],
                 !.state.position_ms = 0]), "crossfade")
       ELSE LET h == play_file_hard_cut(performed(m, "probe", FALSE), path, env)
            IN took(h, "fallback_" \o h.res)
  ELSE LET h == play_file_hard_cut(m, path, env)
       IN took(h, "hard_cut_" \o h.res)

\* A variant: the teardown of seek with the primary alone torn down, the fade left as it is.
seek_teardown_primary_only(m) ==
  LET k2 == kill_opt(m, m.w.primary_process)
  IN [k2 EXCEPT !.w.primary_process = NONE,
                !.w.producer = NONE,
                !.w.stream = FALSE,
                !.ring = <<>>]

\* A variant: the teardown of seek with the producer and the stream kept.
seek_teardown_keeps_stream(m) ==
  LET k1 == kill_opt(m, m.w.secondary_process)
      k2 == kill_opt(k1, m.w.primary_process)
  IN [k2 EXCEPT !.w.secondary_process = NONE,
                !.w.primary_process = NONE,
                !.w.crossfade_state = NONE]

\* seek, "Stop any fading, just hard seek primary": both decoders, the
\* crossfade state, the producer and the stream go
\* A variant: a teardown done by calling stop().
seek_teardown_stops(m) == stop(m)

seek_teardown(m) ==
  LET k1 == kill_opt(m, m.w.secondary_process)
      k2 == kill_opt(k1, m.w.primary_process)
  IN [k2 EXCEPT !.w.secondary_process = NONE,
                !.w.primary_process = NONE,
                !.w.crossfade_state = NONE,
                !.w.producer = NONE,
                !.w.stream = FALSE,
                !.ring = <<>>]

seek(m, pos_ms, env) ==
  IF ~IsSome(m.w.current_file_path) THEN took(m, "no_file")
  ELSE
    LET path == Unwrap(m.w.current_file_path)
        m1 == seek_teardown(m)
    IN IF ~CanSpawn(m1, env.spawn) THEN took(m1, "spawn_fail")
       ELSE
         LET process == spawn_at(path, m1.w.device_sample_rate,
                                 m1.w.device_channels, Some(pos_ms))
             m2 == recreate_cpal_stream(
                     [spawned(m1) EXCEPT !.w.primary_process = Some(process)], env.rec)
         IN took(update_media_controls([m2 EXCEPT
              !.w.current_position_ms = pos_ms,
              !.w.samples_played =
                 (pos_ms * (m2.w.device_sample_rate * m2.w.device_channels)) \div MsPerSec,
              !.state.position_ms = pos_ms]), "ok")

emit_progress(m) ==
  IF m.state.is_playing /\ ~m.state.is_paused
  THEN emit_locked([m EXCEPT !.state.position_ms = m.w.current_position_ms], "progress")
  ELSE m

(* ------------------------------------------------------ decode_and_push *)

\* The sample counts one read_samples call can return: nothing (end of
\* stream, failure), half a buffer, a full buffer.
ReadLens(proc) == {n \in {0, BlockLen, ChunkLen} : proc.out + n <= MaxOutBlocks * BlockLen}

\* The samples pushed and not yet popped
occupied_len(rb) == Len(rb) * BlockLen

\* What read_samples left in the first n slots of the buffer, block by block
buffer(proc, n) == [i \in 1 .. (n \div BlockLen) |-> pcm[proc.path]]

\* A variant: a mix as long as the primary's read, the secondary zero-padded.
mix_primary_driven(primary_buffer, secondary_buffer, elapsed, duration) ==
  [i \in 1 .. Len(primary_buffer) |->
     LET p == primary_buffer[i]
         s == IF i <= Len(secondary_buffer) THEN secondary_buffer[i] ELSE 0
     IN (p * (duration - elapsed) + s * elapsed) \div duration]

Min(a, b) == IF a <= b THEN a ELSE b

\* The whole blocks the ring buffer has room for; push_slice copies what
\* fits and leaves the rest of the slice out
vacant_blocks(m) == (Unwrap(m.w.producer) - occupied_len(m.ring)) \div BlockLen

\* A variant: a loop that fills the ring buffer to three quarters and does
\* not look at the room left.
loop_breaks_late(m) == occupied_len(m.ring) >= (Unwrap(m.w.producer) * 3) \div 4

\* The two breaks at the top of the loop: the ring buffer is half full, or
\* it has less room than one full read buffer
loop_breaks(m) ==
  LET capacity == Unwrap(m.w.producer)
      target_fill == capacity \div 2
      vacant_len == capacity - occupied_len(m.ring)
      occupied == capacity - vacant_len
  IN occupied >= target_fill \/ vacant_len < ChunkLen

\* A variant: the mixing loop with the two weights the wrong way round.
mix_swapped(primary_buffer, secondary_buffer, elapsed, duration) ==
  [i \in 1 .. Len(secondary_buffer) |->
     LET p == IF i <= Len(primary_buffer) THEN primary_buffer[i] ELSE 0
         s == secondary_buffer[i]
     IN (p * elapsed + s * (duration - elapsed)) \div duration]

\* The mixing loop: the primary's buffer zero-padded to the secondary's
\* length, each sample p * (1 - progress) + s * progress with progress =
\* elapsed / duration
mix(primary_buffer, secondary_buffer, elapsed, duration) ==
  [i \in 1 .. Len(secondary_buffer) |->
     LET p == IF i <= Len(primary_buffer) THEN primary_buffer[i] ELSE 0
         s == secondary_buffer[i]
     IN (p * (duration - elapsed) + s * elapsed) \div duration]

\* A variant: push_slice with samples_per_ms taken from the sample rate alone.
push_slice_rate_only(m, slice) ==
  LET samples_played == m.w.samples_played + Len(slice) * BlockLen
      samples_per_ms == m.w.device_sample_rate \div MsPerSec
  IN [m EXCEPT !.ring = @ \o SubSeq(slice, 1, Min(Len(slice), vacant_blocks(m))),
               !.w.samples_played = samples_played,
               !.w.current_position_ms =
                  IF samples_per_ms > 0 THEN samples_played \div samples_per_ms ELSE @]

\* producer.push_slice(..) followed by the inlined update_stats
push_slice(m, slice) ==
  LET samples_played == m.w.samples_played + Len(slice) * BlockLen
      samples_per_ms == (m.w.device_sample_rate * m.w.device_channels) \div MsPerSec
  IN [m EXCEPT !.ring = @ \o SubSeq(slice, 1, Min(Len(slice), vacant_blocks(m))),
               !.w.samples_played = samples_played,
               !.w.current_position_ms =
                  IF samples_per_ms > 0 THEN samples_played \div samples_per_ms ELSE @]

\* A variant: the hand-off without the kill of the old primary.
finish_crossfade_no_kill(m) ==
  [m EXCEPT
     !.w.primary_process = m.w.secondary_process,
     !.w.secondary_process = NONE,
     !.w.crossfade_state = NONE]

\* A variant: a hand-off that starts the incoming file's decoder anew.
finish_crossfade_respawns(m) ==
  [kill_opt(m, m.w.primary_process) EXCEPT
     !.w.primary_process = Some([Unwrap(m.w.secondary_process) EXCEPT !.out = 0]),
     !.w.secondary_process = NONE,
     !.w.crossfade_state = NONE]

\* The "Fade complete!" branch of the loop
finish_crossfade(m) ==
  [kill_opt(m, m.w.primary_process) EXCEPT
     !.w.primary_process = m.w.secondary_process,
     !.w.secondary_process = NONE,
     !.w.crossfade_state = NONE]

\* A chunk was pushed; res keeps "handoff" once the fade completed in this call.
pushed(m) == IF m.res = "handoff" THEN m ELSE took(m, "ran")

\* The fill loop of decode_and_push from its top: every machine it can end
\* in, over all the lengths the reads may return.  res tells how the call
\* went: "idle" (the loop broke at once), "ran" (chunks were pushed),
\* "handoff" (the fade completed), "finished" (a zero-length read).
RECURSIVE fill_loop(_)
fill_loop(m) ==
  LET fading == IsSome(m.w.crossfade_state)
  IN
  IF loop_breaks(m) THEN {m}
  ELSE IF fading /\ Unwrap(m.w.crossfade_state).elapsed >= Unwrap(m.w.crossfade_state).duration
  THEN fill_loop(took(finish_crossfade(m), "handoff"))
  ELSE IF ~IsSome(m.w.primary_process) THEN {took(m, "finished")}
  ELSE UNION {
    LET m1 == performed([m EXCEPT !.w.primary_process[1].out = @ + primary_read],
                        "read_samples", FALSE)
    IN IF primary_read = 0 /\ ~fading THEN {took(m1, "finished")}
       ELSE IF fading /\ IsSome(m.w.secondary_process)
       THEN UNION {
              LET m2 == performed(
                          [m1 EXCEPT !.w.secondary_process[1].out = @ + secondary_read],
                          "read_samples", FALSE)
                  mix_count == secondary_read
                  fade == Unwrap(m.w.crossfade_state)
              IN IF mix_count = 0 THEN {took(m2, "finished")}
                 ELSE fill_loop(pushed(push_slice(m2,
                        mix(buffer(Unwrap(m.w.primary_process), primary_read),
                            buffer(Unwrap(m.w.secondary_process), mix_count),
                            fade.elapsed, fade.duration))))
              : secondary_read \in ReadLens(Unwrap(m1.w.secondary_process)) }
       ELSE IF primary_read > 0
       THEN fill_loop(pushed(push_slice(m1,
              buffer(Unwrap(m.w.primary_process), primary_read))))
       \* fading without a secondary and nothing read: the loop spins until
       \* the fade's time is up
       ELSE fill_loop([m1 EXCEPT !.w.crossfade_state[1].elapsed =
                                    Unwrap(m.w.crossfade_state).duration])
    : primary_read \in ReadLens(Unwrap(m.w.primary_process)) }

handle_end_of_track(m) == emit(stop(m), "finished")

decode_and_push(m) ==
  IF ~IsSome(m.w.producer) \/ ~IsSome(m.w.primary_process) THEN {took(m, "early")}
  ELSE { IF r.res = "finished" THEN handle_end_of_track(r) ELSE r
         : r \in fill_loop(took(m, "idle")) }

\* The Timeout arm of AudioWorker::run
run_timeout(m, outcome) ==
  LET m1 == IF m.w.device_error THEN handle_device_change(m, outcome) ELSE m
  IN { emit_progress(r)
       : r \in IF m1.w.is_playing THEN decode_and_push(m1) ELSE {took(m1, "skip")} }

(* ------------------------------------------------------ the data callback *)

\* An output buffer as the driver hands it over: n slots of leftover content
DriverBuffer(n) == [i \in 1 .. n |-> 99]

\* data.chunks_mut(channels): the slot indexes of each frame, in order; the
\* last frame is short when the length is no multiple of channels
chunks_mut(len, channels) ==
  [f \in 1 .. ((len + channels - 1) \div channels) |->
     [k \in 1 .. (IF f * channels <= len THEN channels ELSE len - (f - 1) * channels) |->
        (f - 1) * channels + k]]

\* A variant: the inner loop without the else branch that writes 0.0.
RECURSIVE fill_frame_skip_empty(_, _, _)
fill_frame_skip_empty(cb, frame, vol) ==
  IF frame = <<>> THEN cb
  ELSE IF cb.consumer # <<>>
  THEN fill_frame_skip_empty([data |-> [cb.data EXCEPT ![Head(frame)] = Head(cb.consumer) * vol],
                              consumer |-> Tail(cb.consumer)], Tail(frame), vol)
  ELSE fill_frame_skip_empty(cb, Tail(frame), vol)

\* A variant: the inner loop writing the popped sample as it is (times 1.0).
RECURSIVE fill_frame_unscaled(_, _, _)
fill_frame_unscaled(cb, frame, vol) ==
  IF frame = <<>> THEN cb
  ELSE IF cb.consumer # <<>>
  THEN fill_frame_unscaled([data |-> [cb.data EXCEPT ![Head(frame)] = Head(cb.consumer) * 100],
                            consumer |-> Tail(cb.consumer)], Tail(frame), vol)
  ELSE fill_frame_unscaled([cb EXCEPT !.data[Head(frame)] = 0], Tail(frame), vol)

\* for sample in frame.iter_mut(): the popped sample times vol, or 0.0 when
\* try_pop() finds the ring buffer empty
RECURSIVE fill_frame(_, _, _)
fill_frame(cb, frame, vol) ==
  IF frame = <<>> THEN cb
  ELSE IF cb.consumer # <<>>
  THEN fill_frame([data |-> [cb.data EXCEPT ![Head(frame)] = Head(cb.consumer) * vol],
                   consumer |-> Tail(cb.consumer)], Tail(frame), vol)
  ELSE fill_frame([cb EXCEPT !.data[Head(frame)] = 0], Tail(frame), vol)

\* for frame in data.chunks_mut(channels)
RECURSIVE fill_frames(_, _, _)
fill_frames(cb, frames, vol) ==
  IF frames = <<>> THEN cb
  ELSE fill_frames(fill_frame(cb, Head(frames), vol), Tail(frames), vol)

\* The data callback closure: silence when the playing flag is down, else
\* the volume is loaded once and every slot is filled
data_callback(buf, playing, volume, consumer, channels) ==
  IF ~playing
  THEN [data |-> [i \in 1 .. Len(buf) |-> 0], consumer |-> consumer]
  ELSE fill_frames([data |-> buf, consumer |-> consumer],
                   chunks_mut(Len(buf), channels), from_bits(volume))

\* A variant: an error callback that also lowers the playing flag.
error_callback_stops(w) == [w EXCEPT !.device_error = TRUE, !.is_playing = FALSE]

\* The error callback closure: it captured the device_error flag alone
error_callback(w) == [w EXCEPT !.device_error = TRUE]

(* ---------------------------------------------------------- the commands *)

\* enum AudioCommand: the variant, its string field (Play's path,
\* SetDevice's name) and its number (Seek's position, SetVolume's volume,
\* SetCrossfade's duration); a field a variant lacks is blank or 0
Command(op, str, num) == [op |-> op, str |-> str, num |-> num]

\* The field of a command that last.arg shows
CommandArg(cmd) == IF cmd.op \in {"Play", "SetDevice"} THEN cmd.str
                   ELSE IF cmd.op \in {"Seek", "SetVolume", "SetCrossfade"} THEN cmd.num
                   ELSE ""

\* The facade calls made while the channel is watched
FacadeCalls ==
  { Command("Play", "a.flac", 0), Command("Seek", "", 4000),
    Command("Stop", "", 0), Command("Pause", "", 0) }

\* Sender::send on the unbounded channel
send(q, cmd) == Append(q, cmd)

\* A variant: a receive that takes the newest command.
recv_newest(q) == [cmd |-> q[Len(q)], rest |-> SubSeq(q, 1, Len(q) - 1)]

\* Receiver::recv_timeout with a command waiting: the oldest one leaves
recv(q) == [cmd |-> Head(q), rest |-> Tail(q)]

\* The SetVolume, SetDevice and SetCrossfade arms of handle_command
set_volume(m, vol) == [m EXCEPT !.w.volume = to_bits(vol), !.state.volume = vol]

set_device(m, name, outcome) ==
  handle_device_change([m EXCEPT !.w.selected_device_name = Some(name)], outcome)

set_crossfade(m, ms) == [m EXCEPT !.w.crossfade_setting = ms]

\* The answers of the environment that handling a command can ask for
EnvsFor(m, cmd) ==
  CASE cmd.op = "Play" -> PlayEnvs(should_crossfade(m, cmd.str))
    [] cmd.op = "Seek" -> SeekEnvs
    [] cmd.op = "SetDevice" -> [spawn : {TRUE}, rec : RecreateOutcomes]
    [] OTHER -> {[spawn |-> TRUE, rec |-> "ok"]}

handle_command(m, cmd, env) ==
  CASE cmd.op = "Play" -> handle_play_request(m, cmd.str, env)
    [] cmd.op = "Pause" -> pause(m)
    [] cmd.op = "Resume" -> resume(m)
    [] cmd.op = "Stop" -> stop(m)
    [] cmd.op = "Seek" -> seek(m, cmd.num, env)
    [] cmd.op = "SetVolume" -> set_volume(m, cmd.num)
    [] cmd.op = "SetDevice" -> set_device(m, cmd.str, env.rec)
    [] cmd.op = "SetCrossfade" -> set_crossfade(m, cmd.num)

(* --------------------------------------------------------------- actions *)

\* What one worker step leaves
Effects(m, op, arg) ==
  /\ worker' = m.w
  /\ state' = m.state
  /\ ring' = m.ring
  /\ children' = m.children
  /\ events' = m.events
  /\ last' = [op |-> op, arg |-> arg, res |-> m.res]

\* A worker step on a command that is sent and received at once, or on a timeout
Commit(m, op, arg) ==
  /\ Effects(m, op, arg)
  /\ UNCHANGED <<default_device, pcm, pipe, queue, data>>

Play ==
  \E path \in Paths :
    \E env \in PlayEnvs(should_crossfade(Machine, path)) :
      Commit(handle_play_request(Machine, path, env), "Play", path)

Pause == Commit(pause(Machine), "Pause", "")

Resume == Commit(resume(Machine), "Resume", "")

Stop == Commit(stop(Machine), "Stop", "")

Seek ==
  \E pos_ms \in SeekPositions, env \in SeekEnvs :
    Commit(seek(Machine, pos_ms, env), "Seek", pos_ms)

SetVolume ==
  \E vol \in Volumes :
    Commit(set_volume(Machine, vol), "SetVolume", vol)

SetDevice ==
  \E name \in SelectableNames, outcome \in RecreateOutcomes :
    Commit(set_device(Machine, name, outcome), "SetDevice", name)

SetCrossfade ==
  \E ms \in CrossfadeSettings :
    Commit(set_crossfade(Machine, ms), "SetCrossfade", ms)

\* recv_timeout finds the channel empty for the whole of its timeout
Timeout ==
  /\ queue = <<>>
  /\ \E outcome \in (IF worker.device_error THEN RecreateOutcomes ELSE {"ok"}) :
       \E m \in run_timeout(Machine, outcome) : Commit(m, "Timeout", "")

\* A call of one of the facade's mutating methods: send(..).ok()
Send ==
  \E cmd \in FacadeCalls :
    /\ Len(queue) < MaxQueue
    /\ queue' = send(queue, cmd)
    /\ UNCHANGED <<default_device, pcm, pipe, worker, state, ring, data, children, events, last>>

\* recv_timeout returns Ok(cmd) and handle_command runs on it
Recv ==
  /\ queue # <<>>
  /\ LET received == recv(queue)
     IN /\ \E env \in EnvsFor(Machine, received.cmd) :
             Effects(handle_command(Machine, received.cmd, env),
                     received.cmd.op, CommandArg(received.cmd))
        /\ queue' = received.rest
  /\ UNCHANGED <<default_device, pcm, pipe, data>>

\* The clock moves on while a crossfade is timed.
TimePasses ==
  /\ IsSome(worker.crossfade_state)
  /\ Unwrap(worker.crossfade_state).elapsed < Unwrap(worker.crossfade_state).duration
  /\ worker' = [worker EXCEPT !.crossfade_state[1].elapsed = @ + 1]
  /\ UNCHANGED <<default_device, pcm, pipe, queue, state, ring, data, children, events, last>>

\* The driver runs the data callback on a buffer of n slots that holds
\* whatever was in it; what the callback wrote goes to the device unseen
Callback ==
  \E n \in 1 .. MaxCallbackBlocks :
    /\ worker.stream
    /\ LET cb == data_callback(DriverBuffer(n), worker.is_playing, worker.volume,
                               ring, worker.device_channels)
       IN ring' = cb.consumer
    /\ UNCHANGED <<default_device, pcm, pipe, queue, worker, state, data, children, events, last>>

\* The same, with the buffer the callback filled kept in data
Render ==
  \E n \in 1 .. MaxCallbackBlocks :
    /\ worker.stream
    /\ LET cb == data_callback(DriverBuffer(n), worker.is_playing, worker.volume,
                               ring, worker.device_channels)
       IN /\ ring' = cb.consumer
          /\ data' = cb.data
    /\ UNCHANGED <<default_device, pcm, pipe, queue, worker, state, children, events, last>>

\* The error callback of build_output_stream
DeviceFault ==
  /\ worker.stream
  /\ worker' = error_callback(worker)
  /\ UNCHANGED <<default_device, pcm, pipe, queue, state, ring, data, children, events, last>>

\* The lifecycle of the decoders: every command but the device and volume
\* ones, the worker's timeout tick, the clock and the realtime callback.
Next ==
  \/ Play
  \/ Pause
  \/ Resume
  \/ Stop
  \/ Seek
  \/ SetCrossfade
  \/ Timeout
  \/ TimePasses
  \/ Callback

Spec == Init /\ [][Next]_vars

\* Device selection, device faults and volume, with the crossfade setting
\* left at 0 as AudioWorker::new sets it.
NextDevice ==
  \/ Play
  \/ Pause
  \/ Resume
  \/ Stop
  \/ Seek
  \/ SetVolume
  \/ SetDevice
  \/ Timeout
  \/ Callback
  \/ DeviceFault

SpecDevice == Init /\ [][NextDevice]_vars

\* What is heard: files that decode to tones, played, paused, stopped and
\* turned up and down, with the driver calling for output.
InitAudio == Boot(Tones)

NextAudio ==
  \/ Play
  \/ Pause
  \/ Resume
  \/ Stop
  \/ SetVolume
  \/ Timeout
  \/ Render

SpecAudio == InitAudio /\ [][NextAudio]_vars

\* What goes into the ring buffer through a crossfade: the same files, one
\* played over the other, with the clock running.
NextFade ==
  \/ Play
  \/ SetCrossfade
  \/ Timeout
  \/ TimePasses
  \/ Callback

SpecFade == InitAudio /\ [][NextFade]_vars

\* One call of read_samples on the watched decoder
ReadSamples ==
  \E bytes_read \in stdout_read(pipe.unread, MaxPipeSamples * BytesPerSample) :
    LET r == read_samples(pipe.unread, bytes_read)
    IN /\ pipe' = [pipe EXCEPT !.unread = r.rest,
                               !.bytes_read = bytes_read,
                               !.samples_read = r.n,
                               !.samples = @ \o r.buffer]
       /\ UNCHANGED <<default_device, pcm, queue, worker, state, ring, data, children,
                      events, last>>

\* A decoder's output read to its end, over every stream of whole samples
\* and every way the pipe hands it over.
InitPipe == Start(Silence, Streams)

NextPipe == ReadSamples

SpecPipe == InitPipe /\ [][NextPipe]_vars

\* The channel between the facade and the worker: calls are sent at any
\* time and the worker receives them, or times out, one step at a time.
NextQueue ==
  \/ Send
  \/ Recv
  \/ Timeout
  \/ Callback

SpecQueue == Init /\ [][NextQueue]_vars

(* ---------------------------------------------------------------- claims *)

\* The decoders a worker holds as primary or secondary
Held(w) ==
  (IF IsSome(w.primary_process) THEN 1 ELSE 0)
  + (IF IsSome(w.secondary_process) THEN 1 ELSE 0)

Fading == IsSome(worker.crossfade_state)

\* A tick of this state gets into the fill loop of decode_and_push and the
\* loop does not break at once.
LoopRuns ==
  /\ ~worker.device_error
  /\ worker.is_playing
  /\ IsSome(worker.producer)
  /\ IsSome(worker.primary_process)
  /\ occupied_len(ring) < Unwrap(worker.producer) \div 2
  /\ Unwrap(worker.producer) - occupied_len(ring) >= ChunkLen

(* C1 *)

\* C1: in every reachable state a secondary decoder is held if and only if
\* the crossfade state is Fading, and a Fading worker also holds a primary:
\* two decoders during a crossfade, none or one (the primary) otherwise.
C1_DecoderCount ==
  /\ IsSome(worker.secondary_process) <=> Fading
  /\ Fading => IsSome(worker.primary_process)
  /\ Held(worker) = (IF Fading THEN 2 ELSE IF IsSome(worker.primary_process) THEN 1 ELSE 0)

C1_Witness ==
  /\ Fading
  /\ Held(worker) = 2
  /\ last.op = "Timeout"
  /\ last.res = "ran"

(* C2 *)

\* What Stop leaves behind
Stopped(w, st) ==
  /\ w.primary_process = NONE
  /\ w.secondary_process = NONE
  /\ w.crossfade_state = NONE
  /\ w.current_file_path = NONE
  /\ st.current_file = NONE
  /\ w.current_position_ms = 0
  /\ st.position_ms = 0

\* C2: Stop, processed in any reachable state, kills every decoder the worker
\* holds (as many subprocesses end as were held), clears the crossfade state
\* and leaves current_file empty and position_ms 0 in the worker and in the
\* snapshot; the state a Stop command left is such a state.
C2_StopResets ==
  /\ LET m == stop(Machine)
     IN /\ Stopped(m.w, m.state)
        /\ m.children = children - Held(worker)
  /\ last.op = "Stop" => Stopped(worker, state)

C2_Witness ==
  /\ last.op = "Stop"
  /\ Stopped(worker, state)
  /\ state.duration_ms > 0
  /\ worker.crossfade_setting > 0

(* C3 *)

\* C3: the subprocesses spawned and not yet killed and reaped are exactly the
\* decoders the worker holds as primary or secondary.
C3_NoLeakedDecoder == children = Held(worker)

(* C4 *)

\* C4: from one state to the next, while the snapshot says playing and not
\* paused on the same file, the reported position_ms does not decrease, but
\* for a step of a Seek or right after one, a crossfade hand-off, or a hard
\* cut that starts the track anew.
C4_PositionNeverDecreases ==
  [][ ( /\ state.is_playing /\ ~state.is_paused
        /\ state'.is_playing /\ ~state'.is_paused
        /\ state'.current_file = state.current_file
        /\ last.op # "Seek"
        /\ last'.op # "Seek"
        /\ last'.res \notin {"handoff", "hard_cut_ok", "fallback_ok"} )
      => state'.position_ms >= state.position_ms ]_vars

(* C5 *)

FallbackResults == {"fallback_ok", "fallback_probe_fail", "fallback_spawn_fail"}

\* C5 as stated: after a Play whose crossfade attempt fell back to the hard
\* cut, exactly one decoder, the new track's, is held as primary, the
\* crossfade state is None and the ring buffer is empty.
C5_FallbackLeavesNewTrack ==
  (last.op = "Play" /\ last.res \in FallbackResults)
    => /\ IsSome(worker.primary_process)
       /\ Unwrap(worker.primary_process).path = last.arg
       /\ worker.secondary_process = NONE
       /\ worker.crossfade_state = NONE
       /\ ring = <<>>

\* C5 amended: when the secondary's spawn fails on the crossfade path, every
\* decoder held before is killed, the crossfade state is None and the ring
\* buffer is empty; the new track's decoder is the one primary exactly when
\* the hard cut's own probe and spawn succeed, and otherwise no decoder is
\* held, nothing plays and an error is emitted.
C5_FallbackHardCut ==
  \A path \in Paths :
    should_crossfade(Machine, path) =>
      \A env \in PlayEnvs(TRUE) :
        (env.probe /\ ~CanSpawn(Machine, env.spawn)) =>
          LET m == handle_play_request(Machine, path, env)
              hard_cut_ok == /\ env.hc_probe
                             /\ env.hc_spawn
                             /\ children - Held(worker) < MaxProcs
          IN /\ m.res \in FallbackResults
             /\ m.w.secondary_process = NONE
             /\ m.w.crossfade_state = NONE
             /\ m.ring = <<>>
             /\ m.children = children - Held(worker) + Held(m.w)
             /\ (m.res = "fallback_ok") <=> hard_cut_ok
             /\ IF hard_cut_ok
                THEN /\ m.w.primary_process =
                          Some(spawn(path, m.w.device_sample_rate, m.w.device_channels))
                     /\ m.w.current_file_path = Some(path)
                     /\ m.state.current_file = Some(path)
                     /\ m.w.is_playing
                ELSE /\ m.w.primary_process = NONE
                     /\ m.w.current_file_path = NONE
                     /\ ~m.w.is_playing
                     /\ \E i \in 1 .. Len(m.events) : m.events[i] = "error"

C5_Witness ==
  /\ last.op = "Play"
  /\ last.res = "fallback_ok"
  /\ IsSome(worker.primary_process)
  /\ Unwrap(worker.primary_process).path = last.arg
  /\ worker.crossfade_state = NONE

(* C6 *)

\* C6: while a crossfade started by Play(B) is Fading, two decoders are held
\* and current_file is B's path in the worker and the snapshot; a tick before
\* the fade's time is up keeps both, and the tick whose loop runs once the
\* time is up hands off: the old primary is killed, B's decoder is the only
\* one (as primary), the crossfade state is None and current_file is still
\* B's path (unless a read ends the stream in that tick and it stops).
C6_CrossfadeHandOff ==
  Fading =>
    /\ IsSome(worker.primary_process)
    /\ IsSome(worker.secondary_process)
    /\ worker.current_file_path = Some(Unwrap(worker.secondary_process).path)
    /\ state.current_file = worker.current_file_path
    /\ \A m \in run_timeout(Machine, "ok") :
         LET fade == Unwrap(worker.crossfade_state)
         IN /\ m.res \in {"skip", "early", "idle", "ran"} =>
                 /\ m.w.crossfade_state = worker.crossfade_state
                 /\ Held(m.w) = 2
                 /\ m.children = children
                 /\ m.w.current_file_path = worker.current_file_path
            /\ m.res = "handoff" =>
                 /\ fade.elapsed >= fade.duration
                 /\ m.w.crossfade_state = NONE
                 /\ m.w.secondary_process = NONE
                 /\ IsSome(m.w.primary_process)
                 /\ Unwrap(m.w.primary_process).path = Unwrap(worker.secondary_process).path
                 /\ m.children = children - 1
                 /\ m.w.current_file_path = worker.current_file_path
                 /\ m.state.current_file = state.current_file
            /\ m.res = "finished" =>
                 /\ Held(m.w) = 0
                 /\ m.children = children - 2
            /\ (LoopRuns /\ fade.elapsed >= fade.duration) =>
                 m.res \in {"handoff", "finished"}

C6_Witness ==
  /\ last.op = "Timeout"
  /\ last.res = "handoff"
  /\ worker.crossfade_state = NONE
  /\ worker.secondary_process = NONE
  /\ IsSome(worker.primary_process)
  /\ Unwrap(worker.primary_process).path = "b.flac"
  /\ state.current_file = Some("b.flac")

(* C7 *)

\* C7: a Seek(P) on a loaded track whose spawn succeeds kills every decoder
\* held before, leaves the crossfade state None and no secondary, and
\* leaves exactly one primary, spawned for the current file at offset P.
C7_SeekCancelsCrossfade ==
  /\ \A pos_ms \in SeekPositions, env \in SeekEnvs :
       LET m == seek(Machine, pos_ms, env)
       IN m.res = "ok" =>
            /\ m.w.crossfade_state = NONE
            /\ m.w.secondary_process = NONE
            /\ IsSome(m.w.primary_process)
            /\ Unwrap(m.w.primary_process).path = Unwrap(worker.current_file_path)
            /\ Unwrap(m.w.primary_process).position_ms = Some(pos_ms)
            /\ Unwrap(m.w.primary_process).out = 0
            /\ m.w.current_file_path = worker.current_file_path
            /\ m.children = children - Held(worker) + 1
  /\ (last.op = "Seek" /\ last.res = "ok") =>
       /\ worker.crossfade_state = NONE
       /\ worker.secondary_process = NONE
       /\ IsSome(worker.primary_process)
       /\ Unwrap(worker.primary_process).position_ms = Some(last.arg)
       /\ Some(Unwrap(worker.primary_process).path) = worker.current_file_path

C7_Witness ==
  /\ last.op = "Seek"
  /\ last.res = "ok"
  /\ worker.crossfade_setting > 0
  /\ worker.crossfade_state = NONE
  /\ Held(worker) = 1
  /\ Unwrap(worker.primary_process).position_ms = Some(last.arg)

(* C8 *)

\* C8: a Seek on a loaded track, whatever its spawn and its stream rebuild
\* come to, leaves the ring buffer without any sample pushed before it, and
\* the ring buffer stays empty until the next worker step: the callback has
\* nothing from before the seek to emit.
C8_SeekEmptiesRing ==
  /\ \A pos_ms \in SeekPositions, env \in SeekEnvs :
       LET m == seek(Machine, pos_ms, env)
       IN m.res # "no_file" => m.ring = <<>>
  /\ last.op = "Seek" => ring = <<>>

C8_Witness ==
  /\ last.op = "Seek"
  /\ last.res = "ok"
  /\ ring = <<>>
  /\ worker.stream
  /\ IsSome(worker.producer)
  /\ worker.samples_played > 0

(* C9 *)

\* C9: after Seek(P) the reported position_ms is P, and after a following
\* tick that pushed samples it is, within one tick (TickMs), P plus the
\* milliseconds of audio the decoder spawned at P has delivered since.
C9_SeekPositionTracksAudio ==
  ( /\ last.op \in {"Seek", "Timeout"}
    /\ last.res \in {"ok", "ran"}
    /\ state.is_playing /\ ~state.is_paused
    /\ IsSome(worker.primary_process)
    /\ IsSome(Unwrap(worker.primary_process).position_ms)
    /\ Unwrap(worker.primary_process).sample_rate = worker.device_sample_rate
    /\ Unwrap(worker.primary_process).channels = worker.device_channels )
  => LET proc == Unwrap(worker.primary_process)
         P == Unwrap(proc.position_ms)
         per_sec == worker.device_sample_rate * worker.device_channels
         reported == state.position_ms * per_sec
         audio == P * per_sec + proc.out * MsPerSec
     IN IF last.op = "Seek"
        THEN state.position_ms = P
        ELSE /\ reported - audio <= TickMs * per_sec
             /\ audio - reported <= TickMs * per_sec

(* C10 *)

\* C10: a tick that gets into the decode loop and does not end the track
\* leaves current_position_ms = samples_played / (sample_rate * channels /
\* 1000) for the device configuration then active, with samples_played grown
\* by exactly the samples the tick pushed to the ring buffer; the snapshot
\* shows that position when playing and not paused.
C10_PositionFromSamples ==
  \A outcome \in (IF worker.device_error THEN RecreateOutcomes ELSE {"ok"}) :
    \A m \in run_timeout(Machine, outcome) :
      m.res \in {"idle", "ran", "handoff"} =>
        LET samples_per_ms == (m.w.device_sample_rate * m.w.device_channels) \div MsPerSec
            before == IF worker.device_error THEN 0 ELSE occupied_len(ring)
        IN /\ m.w.samples_played - worker.samples_played = occupied_len(m.ring) - before
           /\ m.w.current_position_ms = m.w.samples_played \div samples_per_ms
           /\ (m.state.is_playing /\ ~m.state.is_paused)
                => m.state.position_ms = m.w.current_position_ms

C10_Witness ==
  /\ last.op = "Timeout"
  /\ last.res = "ran"
  /\ worker.samples_played > 0
  /\ worker.device_sample_rate * worker.device_channels = 22050
  /\ worker.current_position_ms = worker.samples_played \div 22
  /\ state.position_ms = worker.current_position_ms

(* C11 *)

\* C11: a data callback invocation on a buffer of any length writes every
\* slot: 0 in all of them when the playing flag is down; else, slot by slot,
\* the next sample of the ring buffer times the volume while there is one
\* and 0 once it is empty, so an empty ring buffer gives all zeros.  No slot
\* of an output buffer keeps what the driver handed over.
C11_CallbackWritesEverySlot ==
  /\ \A n \in 1 .. MaxCallbackBlocks :
       LET cb == data_callback(DriverBuffer(n), worker.is_playing, worker.volume,
                               ring, worker.device_channels)
       IN /\ Len(cb.data) = n
          /\ \A i \in 1 .. n :
               cb.data[i] = IF ~worker.is_playing THEN 0
                            ELSE IF i <= Len(ring) THEN ring[i] * from_bits(worker.volume)
                            ELSE 0
          /\ ring = <<>> => \A i \in 1 .. n : cb.data[i] = 0
  /\ \A i \in 1 .. Len(data) : data[i] \notin {DriverBuffer(Len(data))[i]}

C11_Witness ==
  /\ worker.stream
  /\ worker.is_playing
  /\ ring = <<>>
  /\ Len(data) = 2
  /\ data[1] # 0
  /\ data[2] = 0

(* C12 *)

\* C12: the volume the callback loads is the volume of the last SetVolume
\* and of the snapshot: a data callback invocation writes each popped
\* sample times the snapshot's volume, one volume for the whole buffer, and
\* after SetVolume(v) the snapshot's volume is v.
C12_VolumeScalesOutput ==
  /\ from_bits(worker.volume) = state.volume
  /\ last.op = "SetVolume" => state.volume = last.arg
  /\ worker.is_playing =>
       \A n \in 1 .. MaxCallbackBlocks :
         LET cb == data_callback(DriverBuffer(n), TRUE, worker.volume,
                                 ring, worker.device_channels)
         IN \A i \in 1 .. n :
              i <= Len(ring) => cb.data[i] = ring[i] * state.volume

C12_Witness ==
  /\ last.op = "SetVolume"
  /\ last.arg = 50
  /\ worker.is_playing
  /\ Len(data) = 2
  /\ data[1] = pcm["a.flac"] * 50
  /\ data[2] = pcm["a.flac"] * 50

(* C13 *)

HardCutResults == {"hard_cut_ok", "hard_cut_probe_fail", "hard_cut_spawn_fail"}

\* C13: a Play request takes the crossfade path if and only if the playing
\* flag is set, the crossfade setting is nonzero, a primary decoder is held
\* and the path is not the current file's; with the probe and the spawn
\* succeeding, the crossfade then starts (the new decoder is the secondary,
\* the state is Fading, the primary stays).  In every other case the request
\* is the hard cut, whatever the hard cut comes to.
C13_PlayPolicy ==
  \A path \in Paths :
    LET wanted == /\ worker.is_playing
                  /\ worker.crossfade_setting > 0
                  /\ worker.primary_process # NONE
                  /\ worker.current_file_path # Some(path)
    IN \A env \in PlayEnvs(wanted) :
    LET m == handle_play_request(Machine, path, env)
        started == /\ m.w.crossfade_state =
                        Some([elapsed |-> 0, duration |-> worker.crossfade_setting])
                   /\ m.w.secondary_process =
                        Some(spawn(path, worker.device_sample_rate, worker.device_channels))
                   /\ m.w.primary_process = worker.primary_process
                   /\ m.children = children + 1
        hard_cut == play_file_hard_cut(Machine, path, env)
    IN /\ (m.res \notin HardCutResults) <=> wanted
       /\ (env.probe /\ CanSpawn(Machine, env.spawn)) => (started <=> wanted)
       /\ started => (m.res = "crossfade" /\ wanted)
       /\ ~wanted => /\ m.res = "hard_cut_" \o hard_cut.res
                     /\ m.w = hard_cut.w
                     /\ m.state = hard_cut.state
                     /\ m.ring = hard_cut.ring
                     /\ m.children = hard_cut.children
                     /\ m.w.crossfade_state = NONE

C13_Witness ==
  /\ last.op = "Play"
  /\ last.res = "crossfade"
  /\ Fading
  /\ Unwrap(worker.crossfade_state).elapsed = 0
  /\ Unwrap(worker.secondary_process).path = last.arg
  /\ Unwrap(worker.primary_process).path # last.arg

(* C14 *)

\* C14: a hard cut to path that succeeds, from any reachable state, leaves
\* one decoder held, the primary, spawned for path from its start; no
\* secondary; the crossfade state None; samples_played and the positions 0;
\* and the snapshot playing, not paused, on path, with the probed duration.
\* The decoders held before are killed.
C14_HardCutPost ==
  /\ \A path \in Paths, env \in HardCutEnvs :
       LET m == play_file_hard_cut(Machine, path, env)
       IN m.res = "ok" =>
            /\ m.w.primary_process =
                 Some(spawn(path, m.w.device_sample_rate, m.w.device_channels))
            /\ m.w.secondary_process = NONE
            /\ m.w.crossfade_state = NONE
            /\ m.w.samples_played = 0
            /\ m.w.current_position_ms = 0
            /\ m.w.is_playing
            /\ m.state = [is_playing |-> TRUE, is_paused |-> FALSE,
                          current_file |-> Some(path), position_ms |-> 0,
                          duration_ms |-> DurationOf[path], volume |-> state.volume]
            /\ m.children = children - Held(worker) + 1
  /\ (last.op = "Play" /\ last.res \in {"hard_cut_ok", "fallback_ok"}) =>
       /\ Held(worker) = 1
       /\ Unwrap(worker.primary_process).path = last.arg
       /\ Unwrap(worker.primary_process).out = 0
       /\ worker.crossfade_state = NONE
       /\ worker.samples_played = 0
       /\ state.position_ms = 0
       /\ state.is_playing /\ ~state.is_paused
       /\ state.current_file = Some(last.arg)
       /\ state.duration_ms = DurationOf[last.arg]

C14_Witness ==
  /\ last.op = "Play"
  /\ last.res = "hard_cut_ok"
  /\ worker.crossfade_setting > 0
  /\ Held(worker) = 1
  /\ state.is_playing
  /\ state.current_file = Some(last.arg)
  /\ state.duration_ms = DurationOf[last.arg]
  /\ children > 1

(* C15 *)

\* C15: through a crossfade of duration T the samples a tick pushes are the
\* outgoing track's (or 0 once it has ended) times (T - elapsed) / T plus the
\* incoming track's times elapsed / T: all outgoing at elapsed = 0, and all
\* incoming from elapsed = T on, when the tick hands off; the incoming
\* track's share elapsed / T does not decrease as elapsed grows.
C15_MixRatio ==
  Fading =>
    LET fade == Unwrap(worker.crossfade_state)
        outgoing == pcm[Unwrap(worker.primary_process).path]
        incoming == pcm[Unwrap(worker.secondary_process).path]
        share(elapsed) == mix(<<0>>, <<fade.duration>>, elapsed, fade.duration)[1]
    IN /\ share(0) = 0
       /\ \A elapsed \in 0 .. fade.duration - 2 : share(elapsed) <= share(elapsed + 1)
       /\ share(fade.duration - 1) < fade.duration
       /\ \A m \in run_timeout(Machine, "ok") :
            LET new == SubSeq(m.ring, Len(ring) + 1, Len(m.ring))
            IN /\ m.res = "ran" =>
                    /\ fade.elapsed < fade.duration
                    /\ new # <<>>
                    /\ \A i \in 1 .. Len(new) :
                         new[i] * fade.duration \in
                           { outgoing * (fade.duration - fade.elapsed) + incoming * fade.elapsed,
                             incoming * fade.elapsed }
                    /\ fade.elapsed = 0 => \A i \in 1 .. Len(new) : new[i] \in {outgoing, 0}
               /\ m.res = "handoff" =>
                    /\ fade.elapsed >= fade.duration
                    /\ \A i \in 1 .. Len(new) : new[i] = incoming

C15_Witness ==
  /\ last.op = "Timeout"
  /\ last.res = "ran"
  /\ Fading
  /\ Unwrap(worker.crossfade_state).duration = 2
  /\ Unwrap(worker.crossfade_state).elapsed = 1
  /\ ring # <<>>
  /\ pcm[Unwrap(worker.primary_process).path] # pcm[Unwrap(worker.secondary_process).path]
  /\ ring[Len(ring)] * 2 = pcm[Unwrap(worker.primary_process).path]
                            + pcm[Unwrap(worker.secondary_process).path]

(* C16 *)

\* C16: a step changes the channel in one of two ways only.  A facade call
\* appends exactly one command at the back and touches nothing of the
\* worker's.  The worker takes the command at the front, and what the step
\* leaves is what handle_command gives for that one command on the state
\* before: each command is handled once, in the order sent, in one piece.
C16_CommandsSerialized ==
  [][ \/ queue' = queue
      \/ /\ \E cmd \in FacadeCalls : queue' = Append(queue, cmd)
         /\ UNCHANGED <<worker, state, ring, children, events, last>>
      \/ /\ queue # <<>>
         /\ queue' = Tail(queue)
         /\ last'.op = Head(queue).op
         /\ \E env \in EnvsFor(Machine, Head(queue)) :
              LET m == handle_command(Machine, Head(queue), env)
              IN /\ worker' = m.w
                 /\ state' = m.state
                 /\ ring' = m.ring
                 /\ children' = m.children
                 /\ events' = m.events ]_vars

C16_Witness ==
  /\ last.op = "Seek"
  /\ last.res = "ok"
  /\ Len(queue) = 2
  /\ queue[1].op = "Stop"
  /\ queue[2].op = "Play"
  /\ IsSome(worker.primary_process)

(* C17 *)

\* Every command the facade can send
AllCommands ==
  {Command("Play", path, 0) : path \in Paths}
    \cup {Command(op, "", 0) : op \in {"Pause", "Resume", "Stop"}}
    \cup {Command("Seek", "", pos_ms) : pos_ms \in SeekPositions}
    \cup {Command("SetVolume", "", vol) : vol \in Volumes}
    \cup {Command("SetDevice", name, 0) : name \in SelectableNames}
    \cup {Command("SetCrossfade", "", ms) : ms \in CrossfadeSettings}

\* Every machine the worker's next step can leave: a command handled, or a timeout
WorkerSteps ==
  UNION {{handle_command(Machine, cmd, env) : env \in EnvsFor(Machine, cmd)}
         : cmd \in AllCommands}
    \cup UNION {run_timeout(Machine, outcome)
                : outcome \in (IF worker.device_error THEN RecreateOutcomes ELSE {"ok"})}

\* C17: in no step of the worker is the PlaybackState lock held while it
\* does anything but copy or overwrite the snapshot: no read from a decoder,
\* no spawn, no probe, no stream build and no other input or output happens
\* with the guard alive.
C17_LockOnlyForSnapshot ==
  \A m \in WorkerSteps : \A i \in 1 .. Len(m.io) : ~m.io[i].locked

(* C18 *)

\* C18: a run of the data callback or of the error callback leaves the
\* snapshot, the counts of subprocesses, the events, the channel and every
\* field of the worker as they were, but for the fault flag, which only the
\* error callback sets, and the ring buffer, from which the data callback
\* only takes samples at the front; the playing flag and the volume bits
\* are read and never written.
C18_CallbackTouchesOnlyItsCaptures ==
  [][ (Callback \/ Render \/ DeviceFault) =>
        /\ state' = state
        /\ [worker' EXCEPT !.device_error = worker.device_error] = worker
        /\ worker.device_error => worker'.device_error
        /\ children' = children
        /\ events' = events
        /\ queue' = queue
        /\ last' = last
        /\ \E k \in 0 .. Len(ring) : ring' = SubSeq(ring, k + 1, Len(ring))
        /\ worker'.device_error # worker.device_error => ring' = ring /\ data' = data ]_vars

C18_Witness ==
  /\ worker.device_error
  /\ worker.is_playing
  /\ state.is_playing
  /\ IsSome(worker.primary_process)
  /\ worker.stream
  /\ ring # <<>>

(* C19 *)

\* The playback-error events a handler emitted
ErrorCount(m) == Cardinality({i \in 1 .. Len(m.events) : m.events[i] = "error"})

\* The stream could not be rebuilt: no device or configuration, or no stream
RebuildFailures == {"no_config", "no_stream"}

\* Handling cmd with the answers env met a failed probe, spawn or rebuild
FailureIn(cmd, env, m) ==
  \/ m.res \in {"crossfade_probe_fail", "hard_cut_probe_fail", "hard_cut_spawn_fail",
                 "fallback_probe_fail", "fallback_spawn_fail", "fallback_ok", "spawn_fail"}
  \/ /\ m.res \in {"hard_cut_ok", "ok"}
     /\ cmd.op \in {"Play", "Seek"}
     /\ env.rec \in RebuildFailures
  \/ /\ cmd.op = "SetDevice"
     /\ IsSome(worker.current_file_path)
     /\ env.rec \in RebuildFailures

\* C19: whenever the handling of a command meets a failed probe, a failed
\* spawn or a failed rebuild of the stream, and whenever the rebuild after a
\* device fault fails, the step emits exactly one playback-error event.
C19_OneErrorPerFailure ==
  /\ \A cmd \in AllCommands : \A env \in EnvsFor(Machine, cmd) :
       LET m == handle_command(Machine, cmd, env)
       IN FailureIn(cmd, env, m) => ErrorCount(m) = 1
  /\ (worker.device_error /\ IsSome(worker.current_file_path)) =>
       \A outcome \in RebuildFailures : \A m \in run_timeout(Machine, outcome) :
         ErrorCount(m) = 1

(* C20 *)

\* C20: a Play request that takes the crossfade path and whose probe of the
\* new file fails emits one playback-error event and nothing else, and
\* leaves every field of the worker (decoders, crossfade state, current
\* file, duration, position counters, playing flag), the snapshot, the ring
\* buffer and the subprocesses as they were.
C20_ProbeFailureLeavesPlayback ==
  /\ \A path \in Paths :
       should_crossfade(Machine, path) =>
         \A env \in PlayEnvs(TRUE) :
           ~env.probe =>
             LET m == handle_play_request(Machine, path, env)
             IN /\ m.res = "crossfade_probe_fail"
                /\ m.events = <<"error">>
                /\ m.w = worker
                /\ m.state = state
                /\ m.ring = ring
                /\ m.children = children
  /\ (last.op = "Play" /\ last.res = "crossfade_probe_fail") =>
       /\ events = <<"error">>
       /\ worker.is_playing
       /\ state.is_playing
       /\ IsSome(worker.primary_process)
       /\ worker.current_file_path # Some(last.arg)
       /\ state.current_file = worker.current_file_path

C20_Witness ==
  /\ last.op = "Play"
  /\ last.res = "crossfade_probe_fail"
  /\ Fading
  /\ Unwrap(worker.crossfade_state).elapsed > 0
  /\ IsSome(worker.secondary_process)
  /\ ring # <<>>

(* C21 *)

\* The ways a hard-cut Play ends when its probe or its spawn fails
HardCutFailures ==
  {"hard_cut_probe_fail", "hard_cut_spawn_fail", "fallback_probe_fail", "fallback_spawn_fail"}

\* C21: a Play request that takes the hard cut, directly or as the fallback
\* of a crossfade, and whose probe or spawn fails leaves nothing playing:
\* the worker holds no primary and no secondary decoder, every decoder it
\* held before was killed, the playing flag and the snapshot's is_playing
\* are false and current_file is empty in the worker and in the snapshot.
C21_FailedHardCutLeavesNothing ==
  /\ \A path \in Paths : \A env \in PlayEnvs(should_crossfade(Machine, path)) :
       LET m == handle_play_request(Machine, path, env)
       IN m.res \in HardCutFailures =>
            /\ m.w.primary_process = NONE
            /\ m.w.secondary_process = NONE
            /\ m.children = children - Held(worker)
            /\ ~m.w.is_playing
            /\ ~m.state.is_playing
            /\ m.w.current_file_path = NONE
            /\ m.state.current_file = NONE
  /\ (last.op = "Play" /\ last.res \in HardCutFailures) =>
       /\ Held(worker) = 0
       /\ ~worker.is_playing
       /\ ~state.is_playing
       /\ state.current_file = NONE

\* A failed hard cut after a track had been playing: the snapshot still
\* carries that track's duration
C21_Witness ==
  /\ last.op = "Play"
  /\ last.res = "hard_cut_spawn_fail"
  /\ state.duration_ms # 0
  /\ state.current_file = NONE
  /\ worker.primary_process = NONE

(* C22 *)

\* The calls of recreate_cpal_stream a handler made
RebuildCount(m) == Cardinality({i \in 1 .. Len(m.io) : m.io[i].op = "build_stream"})

C23_PauseResumeFrame ==
  LET paused == pause(Machine)
      resumed == resume(paused)
      direct == resume(Machine)
      vol == from_bits(worker.volume)
  IN /\ paused.w = [worker EXCEPT !.is_playing = FALSE]
     /\ paused.state = [state EXCEPT !.is_paused = TRUE, !.is_playing = FALSE]
     /\ paused.ring = ring
     /\ paused.children = children
     /\ paused.events = <<"state">>
     /\ direct.w = [worker EXCEPT !.is_playing = TRUE]
     /\ direct.state = [state EXCEPT !.is_paused = FALSE, !.is_playing = TRUE]
     /\ direct.ring = ring
     /\ direct.children = children
     /\ resumed.w = direct.w
     /\ resumed.state = direct.state
     /\ resumed.ring = ring
     /\ \A n \in 1 .. MaxCallbackBlocks :
          LET silent == data_callback(DriverBuffer(n), paused.w.is_playing, paused.w.volume,
                                      paused.ring, paused.w.device_channels)
              heard == data_callback(DriverBuffer(n), resumed.w.is_playing, resumed.w.volume,
                                     resumed.ring, resumed.w.device_channels)
          IN /\ silent.consumer = ring
             /\ \A i \in 1 .. n : silent.data[i] = 0
             /\ \A i \in 1 .. n :
                  heard.data[i] = IF i <= Len(ring) THEN ring[i] * vol ELSE 0
             /\ heard.consumer = SubSeq(ring, n + 1, Len(ring))
  /\ (last.op = "Pause" => ~worker.is_playing /\ state.is_paused /\ ~state.is_playing)
  /\ (last.op = "Resume" => worker.is_playing /\ ~state.is_paused /\ state.is_playing)

\* After a Pause and a Resume the buffer filled before them is being played
C23_Witness ==
  /\ last.op = "Resume"
  /\ worker.stream
  /\ Len(ring) >= 2
  /\ ring[1] # 0
  /\ IsSome(worker.primary_process)
  /\ data # <<>>
  /\ \A i \in 1 .. Len(data) : data[i] = 0

(* C24 *)

\* The commands C24 names
SnapshotCommands == {cmd \in AllCommands :
                       cmd.op \in {"Play", "Pause", "Resume", "Stop", "Seek", "SetVolume"}}

\* C24: whenever the handling of a Play, Pause, Resume, Stop, Seek or
\* SetVolume command leaves the snapshot different from what it was, the
\* handler has emitted a playback-state event.
C24_StateEventOnChange ==
  \A cmd \in SnapshotCommands : \A env \in EnvsFor(Machine, cmd) :
    LET m == handle_command(Machine, cmd, env)
    IN m.state # state => \E i \in 1 .. Len(m.events) : m.events[i] = "state"

(* C25 *)

\* The events of one kind a handler emitted
EventCount(m, e) == Cardinality({i \in 1 .. Len(m.events) : m.events[i] = e})

\* The outcomes the rebuild of a tick can have in this state
TickOutcomes == IF worker.device_error THEN RecreateOutcomes ELSE {"ok"}

\* C25: a timeout tick emits a playback-progress event exactly when, at
\* its end, the snapshot is playing and not paused; the event carries the
\* worker's current position; and none is emitted by an engine that is
\* paused or stopped, that is, one with no file loaded.
C25_ProgressOnlyWhilePlaying ==
  \A outcome \in TickOutcomes : \A m \in run_timeout(Machine, outcome) :
    /\ EventCount(m, "progress") = (IF m.state.is_playing /\ ~m.state.is_paused THEN 1 ELSE 0)
    /\ EventCount(m, "progress") = 1 =>
         /\ m.state.position_ms = m.w.current_position_ms
         /\ ~m.state.is_paused
         /\ IsSome(m.w.current_file_path)

(* C26 *)

\* The machine a handler left, as the next handler finds it
After(m) == [m EXCEPT !.events = <<>>, !.io = <<>>, !.res = ""]

\* C26: a tick on which the primary decoder returns a zero-length read
\* outside a crossfade leaves the engine stopped, with every decoder killed,
\* the playing flag and the snapshot's is_playing false, one
\* playback-finished event and no progress event; and from the state such a
\* tick left, whatever command other than Play is handled next, the tick
\* after it runs no decode cycle and emits no progress and no
\* playback-finished event.
C26_EndOfTrackStops ==
  /\ ~Fading =>
       \A outcome \in TickOutcomes : \A m \in run_timeout(Machine, outcome) :
         m.res = "finished" =>
           /\ Stopped(m.w, m.state)
           /\ m.children = children - Held(worker)
           /\ ~m.w.is_playing
           /\ ~m.state.is_playing
           /\ EventCount(m, "finished") = 1
           /\ EventCount(m, "progress") = 0
  /\ (last.op = "Timeout" /\ last.res = "finished") =>
       \A cmd \in {c \in AllCommands : c.op # "Play"} : \A env \in EnvsFor(Machine, cmd) :
         \A m \in run_timeout(After(handle_command(Machine, cmd, env)), "ok") :
           /\ m.res \in {"skip", "early"}
           /\ EventCount(m, "progress") = 0
           /\ EventCount(m, "finished") = 0

(* C27 *)

\* C27: Stop, processed in any reachable state, leaves the snapshot and the
\* worker empty: not playing, not paused, no current file, position 0 and
\* duration 0 in both.
C27_StopEmptiesSnapshot ==
  LET m == stop(Machine)
  IN /\ ~m.state.is_playing
     /\ ~m.state.is_paused
     /\ m.state.current_file = NONE
     /\ m.state.position_ms = 0
     /\ m.state.duration_ms = 0
     /\ ~m.w.is_playing
     /\ m.w.current_file_path = NONE
     /\ m.w.current_position_ms = 0
     /\ m.w.duration_ms = 0

(* C28 *)

\* C28: whenever the read of a read_samples call took at least one byte
\* from the pipe, the call reported at least one sample.
C28_ZeroOnlyAtEnd == pipe.bytes_read > 0 => pipe.samples_read > 0

(* C29 *)

\* The byte stream as consecutive 4-byte little-endian floats
Decoded(stream) ==
  [i \in 1 .. (Len(stream) \div BytesPerSample) |->
     from_le_bytes(SubSeq(stream, (i - 1) * BytesPerSample + 1, i * BytesPerSample))]

\* C29: once the whole stream has been read, however the pipe split it,
\* the samples the calls returned, in order, are the stream decoded as
\* consecutive 4-byte little-endian floats; and before that they are a
\* prefix of it.
C29_SamplesAreTheStream ==
  /\ Len(pipe.samples) <= Len(Decoded(pipe.stream))
  /\ pipe.samples = SubSeq(Decoded(pipe.stream), 1, Len(pipe.samples))
  /\ pipe.unread = <<>> => pipe.samples = Decoded(pipe.stream)

(* C30 *)

\* C30: a tick during a crossfade whose time is not yet up, on which the
\* secondary decoder returns a zero-length read, ends the playback: both
\* decoders are killed, the crossfade state is cleared, the playing flag is
\* down, the snapshot is empty (not playing, not paused, no current file,
\* position 0, duration 0) and one playback-finished event is emitted.
C30_SecondaryEndFinishes ==
  (Fading /\ Unwrap(worker.crossfade_state).elapsed < Unwrap(worker.crossfade_state).duration) =>
    \A outcome \in TickOutcomes : \A m \in run_timeout(Machine, outcome) :
      m.res = "finished" =>
        /\ Stopped(m.w, m.state)
        /\ m.children = children - Held(worker)
        /\ ~m.w.is_playing
        /\ ~m.state.is_playing
        /\ ~m.state.is_paused
        /\ m.state.duration_ms = 0
        /\ EventCount(m, "finished") = 1

(* C31 *)

\* C31: on a tick of decode steps during a crossfade whose time is not up,
\* the samples pushed to the ring buffer and added to samples_played are as
\* many as were read from the secondary decoder; where the primary's read
\* was the shorter one its missing samples count as zero; and each pushed
\* sample is primary * (1 - progress) + secondary * progress.
C31_MixDrivenBySecondary ==
  (Fading /\ Unwrap(worker.crossfade_state).elapsed < Unwrap(worker.crossfade_state).duration) =>
    LET fade == Unwrap(worker.crossfade_state)
        outgoing == pcm[Unwrap(worker.primary_process).path]
        incoming == pcm[Unwrap(worker.secondary_process).path]
        mixed == outgoing * (fade.duration - fade.elapsed) + incoming * fade.elapsed
        padded == incoming * fade.elapsed
    IN /\ mix(<<outgoing>>, <<incoming, incoming>>, fade.elapsed, fade.duration)
            = <<mixed \div fade.duration, padded \div fade.duration>>
       /\ mix(<<outgoing, outgoing>>, <<incoming>>, fade.elapsed, fade.duration)
            = <<mixed \div fade.duration>>
       /\ mix(<<outgoing>>, <<>>, fade.elapsed, fade.duration) = <<>>
       /\ \A m \in run_timeout(Machine, "ok") :
            m.res = "ran" =>
              LET new == SubSeq(m.ring, Len(ring) + 1, Len(m.ring))
                  primary_read == Unwrap(m.w.primary_process).out
                                    - Unwrap(worker.primary_process).out
                  secondary_read == Unwrap(m.w.secondary_process).out
                                      - Unwrap(worker.secondary_process).out
                  zero_padded == {i \in 1 .. Len(new) : new[i] * fade.duration = padded}
              IN /\ SubSeq(m.ring, 1, Len(ring)) = ring
                 /\ Len(new) * BlockLen = secondary_read
                 /\ m.w.samples_played = worker.samples_played + secondary_read
                 /\ \A i \in 1 .. Len(new) : new[i] * fade.duration \in {mixed, padded}
                 /\ mixed # padded =>
                      Cardinality(zero_padded) * BlockLen >= secondary_read - primary_read

\* A tick during a fade that pushed a block mixed from both decoders and
\* then one for which the primary had nothing left
C31_Witness ==
  /\ last.op = "Timeout"
  /\ last.res = "ran"
  /\ Fading
  /\ Unwrap(worker.crossfade_state).elapsed > 0
  /\ Len(ring) >= 2
  /\ LET fade == Unwrap(worker.crossfade_state)
         outgoing == pcm[Unwrap(worker.primary_process).path]
         incoming == pcm[Unwrap(worker.secondary_process).path]
     IN /\ outgoing # 0
        /\ ring[Len(ring) - 1] * fade.duration
             = outgoing * (fade.duration - fade.elapsed) + incoming * fade.elapsed
        /\ ring[Len(ring)] * fade.duration = incoming * fade.elapsed

(* C32 *)

\* The decoder of the file the worker names as current: the secondary
\* during a crossfade, else the primary
Incoming(w) == IF IsSome(w.crossfade_state) THEN w.secondary_process ELSE w.primary_process

\* C32: a tick that finds a crossfade's time up and gets into the loop
\* hands off: one subprocess, the old primary, ends; the decoder that was
\* the secondary is the primary, the same process with what it had already
\* delivered; no secondary is held and the crossfade state is None.  Every
\* block pushed on that tick is the incoming file's alone and as many
\* samples are pushed as are read from it; and in every state, before,
\* during and after a crossfade, the samples read from the current file's
\* decoder are as many as were pushed for it: none lost, none pushed twice.
C32_NoSampleLostAtHandOff ==
  /\ (IsSome(Incoming(worker)) /\ Unwrap(Incoming(worker)).position_ms = NONE) =>
       Unwrap(Incoming(worker)).out = worker.samples_played
  /\ (Fading /\ Unwrap(worker.crossfade_state).elapsed >= Unwrap(worker.crossfade_state).duration) =>
       LET incoming == Unwrap(worker.secondary_process)
       IN \A m \in run_timeout(Machine, "ok") :
            /\ LoopRuns => m.res \in {"handoff", "finished"}
            /\ m.res = "handoff" =>
                 LET new == SubSeq(m.ring, Len(ring) + 1, Len(m.ring))
                     promoted == Unwrap(m.w.primary_process)
                 IN /\ m.children = children - 1
                    /\ m.w.secondary_process = NONE
                    /\ m.w.crossfade_state = NONE
                    /\ promoted = [incoming EXCEPT !.out = promoted.out]
                    /\ promoted.out = incoming.out + Len(new) * BlockLen
                    /\ m.w.samples_played = worker.samples_played + Len(new) * BlockLen
                    /\ SubSeq(m.ring, 1, Len(ring)) = ring
                    /\ \A i \in 1 .. Len(new) : new[i] = pcm[incoming.path]

\* After a hand-off: the promoted decoder had delivered samples during the
\* fade and has delivered more since
C32_Witness ==
  /\ last.op = "Timeout"
  /\ last.res = "handoff"
  /\ ~Fading
  /\ IsSome(worker.primary_process)
  /\ worker.secondary_process = NONE
  /\ Unwrap(worker.primary_process).out = worker.samples_played
  /\ worker.samples_played > ChunkLen
  /\ Len(ring) >= 2
  /\ ring[Len(ring)] = pcm[Unwrap(worker.primary_process).path]
  /\ ring[1] # ring[Len(ring)]

(* C33 *)

\* C33: the ring buffer never holds more than its capacity, and in every
\* run of the fill loop, whatever the callback took out before it, the
\* blocks appended to the ring are as many samples as samples_played went up
\* by and what was in the ring stays in front of them; a run that pushes was
\* entered with the buffer less than half full and with room for a full read
\* buffer: every chunk fits whole and every counted sample is in the ring.
C33_PushesFit ==
  /\ IsSome(worker.producer) => occupied_len(ring) <= Unwrap(worker.producer)
  /\ (IsSome(worker.producer) /\ IsSome(worker.primary_process)) =>
       \A m \in fill_loop(took(Machine, "idle")) :
         LET capacity == Unwrap(worker.producer)
             pushed_samples == (Len(m.ring) - Len(ring)) * BlockLen
         IN /\ SubSeq(m.ring, 1, Len(ring)) = ring
            /\ pushed_samples = m.w.samples_played - worker.samples_played
            /\ occupied_len(m.ring) <= capacity
            /\ pushed_samples > 0 =>
                 /\ occupied_len(ring) < capacity \div 2
                 /\ capacity - occupied_len(ring) >= ChunkLen

\* A tick filled the ring buffer to where the loop breaks, after the
\* callback had taken samples out
C33_Witness ==
  /\ last.op = "Timeout"
  /\ last.res = "ran"
  /\ IsSome(worker.producer)
  /\ occupied_len(ring) >= Unwrap(worker.producer) \div 2
  /\ worker.samples_played > occupied_len(ring)
  /\ IsSome(worker.primary_process)
  /\ Unwrap(worker.primary_process).position_ms = NONE

(* C34 *)

\* C34: Pause or Resume handled by an engine with no track loaded leaves it
\* idle: the snapshot's is_playing and is_paused are false, the playing flag
\* is false, and the tick after it emits no progress event.
C34_IdleStaysIdle ==
  worker.current_file_path = NONE =>
    \A m \in {pause(Machine), resume(Machine)} :
      /\ ~m.state.is_playing
      /\ ~m.state.is_paused
      /\ ~m.w.is_playing
      /\ \A t \in run_timeout(After(m), "ok") : EventCount(t, "progress") = 0

(* C35 *)

\* One iteration of the loop of AudioWorker::run: a command is handled, or
\* the wait timed out
run_iteration == Recv \/ Timeout

\* The worker thread never stops iterating; nothing makes the wait time out
\* while commands keep arriving.
SpecLive == Init /\ [][NextQueue]_vars /\ WF_vars(run_iteration)

\* The engine plays with a primary decoder and a ring buffer
PlayingWithDecoder ==
  /\ worker.is_playing
  /\ state.is_playing
  /\ IsSome(worker.primary_process)
  /\ IsSome(worker.producer)

\* C35: from every state in which the engine plays with a primary decoder
\* and a ring buffer less than half full, whatever the facade sends, either
\* a tick comes that runs the fill loop (it pushes, hands off or finishes the
\* track) or the engine leaves that condition.
C35_DecodeEventuallyRuns ==
  (PlayingWithDecoder /\ occupied_len(ring) < Unwrap(worker.producer) \div 2)
    ~> (\/ last.op = "Timeout" /\ last.res \in {"ran", "handoff", "finished"}
        \/ ~PlayingWithDecoder)

(* C36 *)

\* C36: whenever the snapshot reports is_playing, a track is loaded and the
\* worker holds a primary decoder, a ring-buffer producer and a live output
\* stream.
C36_PlayingCanDecode ==
  state.is_playing =>
    /\ IsSome(state.current_file)
    /\ IsSome(worker.current_file_path)
    /\ IsSome(worker.primary_process)
    /\ IsSome(worker.producer)
    /\ worker.stream

(* C37 *)

\* The decoder was spawned for the worker's current output format
SpawnedForDevice(w, process) ==
  IsSome(process) =>
    /\ Unwrap(process).sample_rate = w.device_sample_rate
    /\ Unwrap(process).channels = w.device_channels

\* C37: in every reachable state each decoder the worker holds was spawned
\* with the sample rate and channel count the worker has now as
\* device_sample_rate and device_channels.
C37_DecodersMatchDevice ==
  /\ SpawnedForDevice(worker, worker.primary_process)
  /\ SpawnedForDevice(worker, worker.secondary_process)

(* C38 *)

\* C38: when a tick's fill loop finds the primary decoder at end of stream
\* outside a crossfade, and so goes on to stop (which drops the output
\* stream and the ring buffer) and to emit playback-finished, no sample
\* pushed to the ring buffer is still waiting for the callback.
C38_PlayedOutBeforeFinish ==
  (/\ ~worker.device_error
   /\ worker.is_playing
   /\ ~Fading
   /\ IsSome(worker.producer)
   /\ IsSome(worker.primary_process)) =>
    \A m \in fill_loop(took(Machine, "idle")) :
      m.res = "finished" => occupied_len(m.ring) = 0

(* C39 *)

\* C39: in every reachable state the snapshot does not have is_playing and
\* is_paused both true, its is_playing equals the playing flag the callback
\* reads, and its current_file equals the worker's current_file_path.
C39_SnapshotMatchesWorker ==
  /\ ~(state.is_playing /\ state.is_paused)
  /\ state.is_playing = worker.is_playing
  /\ state.current_file = worker.current_file_path

\* A crossfade was paused: the snapshot shows the incoming file, paused
C39_Witness ==
  /\ last.op = "Pause"
  /\ Fading
  /\ state.is_paused
  /\ ~worker.is_playing
  /\ state.current_file = Some("b.flac")

(* C40 *)

\* The worker's fields with those Seek may write blanked: the decoders, the
\* output stream with its format and ring buffer, the crossfade state and
\* the position counters
SeekFrame(w) ==
  [w EXCEPT !.primary_process = NONE, !.secondary_process = NONE,
            !.stream = FALSE, !.producer = NONE,
            !.device_sample_rate = 0, !.device_channels = 0,
            !.crossfade_state = NONE,
            !.current_position_ms = 0, !.samples_played = 0]

\* C40: Seek, handled in any reachable state with any outcome of its spawn
\* and its stream rebuild, leaves every field of the worker and of the
\* snapshot as it was except the decoders, the output stream and ring, the
\* crossfade state and the position counters: the playing flag, is_playing,
\* is_paused, current_file, duration, volume and crossfade setting stay; and
\* with no track loaded it changes nothing and does nothing.
C40_SeekFrame ==
  \A pos_ms \in SeekPositions, env \in SeekEnvs :
    LET m == seek(Machine, pos_ms, env)
    IN /\ SeekFrame(m.w) = SeekFrame(worker)
       /\ [m.state EXCEPT !.position_ms = 0] = [state EXCEPT !.position_ms = 0]
       /\ m.w.is_playing = worker.is_playing
       /\ m.state.is_playing = state.is_playing
       /\ m.state.is_paused = state.is_paused
       /\ m.state.current_file = state.current_file
       /\ m.w.current_file_path = worker.current_file_path
       /\ m.state.duration_ms = state.duration_ms
       /\ m.w.duration_ms = worker.duration_ms
       /\ m.w.volume = worker.volume
       /\ m.state.volume = state.volume
       /\ m.w.crossfade_setting = worker.crossfade_setting
       /\ ~IsSome(worker.current_file_path) =>
            /\ m.w = worker
            /\ m.state = state
            /\ m.ring = ring
            /\ m.children = children
            /\ m.events = <<>>
            /\ m.io = <<>>

\* A paused track at half volume was sought and is still paused
C40_Witness ==
  /\ last.op = "Seek"
  /\ last.res = "ok"
  /\ state.is_paused
  /\ ~worker.is_playing
  /\ state.position_ms = 4000
  /\ from_bits(worker.volume) = 50
  /\ IsSome(worker.primary_process)

====
